---- MODULE Spec2Model ----
(***************************************************************************)
(* A model of nightrunner-lib's command interpreter: the world state       *)
(* (State), the action dispatcher (process_action), event resolution       *)
(* (handle_event), take/drop (pick_item, drop_item) and movement           *)
(* (handle_movement).  A command is an Action as Action::parse builds it:  *)
(* optional verb, item, subject and movement.                              *)
(*                                                                         *)
(* Items, subjects, narratives, rooms, verbs and events are identified by  *)
(* their u16 id; an Option<u16> that is None is the id 0 (ids start at 1). *)
(* Item and subject names are unique per id, so a lookup by name and a     *)
(* lookup by id select the same element.                                   *)
(***************************************************************************)
EXTENDS Integers, Sequences, FiniteSets, TLC

None == 0

\* Option<Directions>::None.
NoDirection == "none"

\* ---------------------------------------------------------------------
\* Bounds of the exploration.
\* ---------------------------------------------------------------------

\* Largest number of commands of a session explored.
MaxSteps == 4

\* Largest number of words of an input string explored.
MaxWords == 3

\* Largest number of pieces of a narrative text explored.
MaxPieces == 3

\* ---------------------------------------------------------------------
\* Static catalog
\* ---------------------------------------------------------------------

\* The directions extract_movement can return.
Directions == {"north", "south", "east", "west"}

VerbFunctions ==
    {"Quit", "Help", "Look", "Inventory", "Take", "Drop", "Talk", "Normal"}

\* allowed_verbs of the fixture: verb id -> verb_function.
verb_function ==
    [v \in 1..9 |->
        CASE v = 1 -> "Quit"
          [] v = 2 -> "Help"
          [] v = 3 -> "Look"
          [] v = 4 -> "Inventory"
          [] v = 5 -> "Take"
          [] v = 6 -> "Drop"
          [] v = 7 -> "Normal"
          [] v = 8 -> "Talk"
          [] v = 9 -> "Normal"]

allowed_verbs == DOMAIN verb_function

\* An Event record (all the fields the interpreter reads).
Event(id, loc, dest, narr, rv, rs, ri, ai, rem_old, n_after, rem_i, req, add_s, rem_s, move_to) ==
    [id |-> id, location |-> loc, destination |-> dest,
     narrative |-> narr, required_verb |-> rv,
     required_subject |-> rs, required_item |-> ri,
     add_item |-> ai, remove_old_narrative |-> rem_old,
     narrative_after |-> n_after, remove_item |-> rem_i,
     required_events |-> req, add_subject |-> add_s,
     remove_subject |-> rem_s, move_subject_to_location |-> move_to]

Exit(room_id, direction) == [room_id |-> room_id, direction |-> direction]

RoomBlueprint(id, exits, item_ids, narr, subject_ids) ==
    [id |-> id, exits |-> exits, item_ids |-> item_ids,
     narrative |-> narr, subject_ids |-> subject_ids]

\* The item ids and the subject ids of the catalogs.
AllItems == {1, 2, 3}

AllSubjects == {1, 2}

\* The fixture catalog of the test suite.
mock_config ==
    [items    |-> AllItems,
     can_pick |-> [i \in AllItems |-> i # 1],
     subjects |-> AllSubjects,
     narratives |-> {1, 2, 3, 4, 5},
     texts |-> <<
        <<"text">>,
        <<"this is a templated which exists in the game", "{", "item3", "}", ".", "\n", "\n",
          "this is a templated subject that exists in the game", "{", "subject2", "}", ".">>,
        <<"this narrative should replace the old one.">>,
        <<"this narrative should be returned along with the text of room 1.">>,
        <<"this narrative should be returned along with the text of room 1 when completing event 6.">> >>,
     room_blueprints |-> <<
        RoomBlueprint(1, <<Exit(2, "south")>>, <<1, 2>>, 1, <<1>>),
        RoomBlueprint(2, <<Exit(1, "north")>>, <<3>>, 2, <<2>>) >>,
     events |-> <<
        Event(1, 1, None, 1, 2, 1, None, None, FALSE, None, None, {},  None, FALSE, None),
        Event(2, 1, None, 3, 9, 1, None, None, TRUE,  None, None, {4}, None, FALSE, None),
        Event(3, 1, None, 2, 2, 1, None, None, TRUE,  None, None, {2}, None, FALSE, None),
        Event(4, 1, None, 1, 8, 1, None, None, TRUE,  None, None, {},  None, FALSE, None),
        Event(5, 2, 1,    4, 8, 2, None, 2,    FALSE, None, None, {},  None, FALSE, None),
        Event(6, 1, None, 4, 7, 1, 2,    None, FALSE, None, 2,    {5}, None, FALSE, None) >>]

\* A second catalog over the same verbs, items and subjects whose events use
\* the optional fields the fixture leaves unset: remove_subject with and
\* without a target room, add_subject, narrative_after, an absent narrative
\* (with and without a narrative_after), an item-only trigger, two
\* candidates of one shape, and an event that adds and removes the same item
\* and removes and adds the same subject.  Its rooms have several exits in one direction,
\* exits in several directions, and no exit at all; the narrative id of the
\* room without exits is not in the catalog.  Its narrative texts carry
\* placeholders for the items and the subjects.
quest_config ==
    [items    |-> AllItems,
     can_pick |-> [i \in AllItems |-> i # 1],
     subjects |-> AllSubjects,
     narratives |-> {1, 2, 3, 4, 5},
     texts |-> <<
        <<"text">>,
        <<"you see", "{", "item3", "}", "and", "{", "subject2", "}", ".">>,
        <<"you see", "{", "subject1", "}", "leave.">>,
        <<"here are", "{", "item1", "}", "{", "item2", "}", "{", "item3", "}", "\n",
          "{", "subject1", "}", "and", "{", "subject2", "}", ".">>,
        <<"you hear", "{", "subject1", "}", ".">> >>,
     room_blueprints |-> <<
        RoomBlueprint(1, <<Exit(2, "south"), Exit(1, "south")>>, <<1, 2>>, 1, <<1>>),
        RoomBlueprint(2, <<Exit(1, "north"), Exit(3, "east")>>, <<3>>, 2, <<2>>),
        RoomBlueprint(3, <<>>, <<>>, 6, <<>>) >>,
     events |-> <<
        Event(1, 1, None, 1,    9, 1,    None, None, TRUE,  3,    None, {},  None, TRUE,  2),
        Event(2, 2, None, 4,    8, 2,    None, None, FALSE, None, None, {},  1,    FALSE, None),
        Event(3, 1, None, 4,    7, None, 2,    3,    FALSE, None, None, {},  None, TRUE,  None),
        Event(4, 2, None, 4,    7, 2,    None, None, TRUE,  None, 3,    {},  None, FALSE, None),
        Event(5, 2, None, None, 9, 2,    None, 2,    FALSE, None, None, {},  None, FALSE, None),
        Event(6, 1, None, 5,    8, 1,    None, None, FALSE, None, None, {2}, None, FALSE, None),
        Event(7, 1, None, 5,    8, 1,    None, 3,    FALSE, None, 3,    {},  None, FALSE, None),
        Event(8, 1, 2,    4,    7, 1,    2,    None, FALSE, None, 2,    {},  None, TRUE,  None),
        Event(9, 1, None, None, 7, 1,    None, None, TRUE,  5,    None, {},  None, FALSE, None),
        Event(10, 2, None, 4,   2, 2,    None, 3,    FALSE, None, 3,    {},  2,    TRUE,  None) >>]

Worlds == <<mock_config, quest_config>>

\* ---------------------------------------------------------------------
\* Lexicon: the words of the catalog and of the built-in word lists
\* ---------------------------------------------------------------------

\* Verb.names of the fixture's allowed_verbs.
verb_names ==
    [v \in allowed_verbs |->
        CASE v = 1 -> {"quit", ":q", "q"}
          [] v = 2 -> {"help"}
          [] v = 3 -> {"look", "stare"}
          [] v = 4 -> {"inventory", "i"}
          [] v = 5 -> {"pick", "take", "grab", "pi", "tk", "gr", "get", "g"}
          [] v = 6 -> {"drop", "place"}
          [] v = 7 -> {"give", "hand"}
          [] v = 8 -> {"talk", "chat"}
          [] v = 9 -> {"hug"}]

\* Item.name and Subject.name of the fixture.
item_name == [i \in AllItems |-> <<"item1", "item2", "item3">>[i]]

subject_name == [su \in AllSubjects |-> <<"subject1", "subject2">>[su]]

\* AllowedPrepositions::init.
allowed_prepositions ==
     {"aboard", "about", "above", "across", "after",
      "against", "along", "amid", "among", "around", "as", "at", "before",
      "behind", "below", "beneath", "beside", "between", "beyond", "but",
      "by", "concerning", "considering", "despite", "during", "except",
      "following", "for", "from", "in", "inside", "into", "like", "minus",
      "near", "next", "of", "off", "on", "onto", "opposite", "out",
      "outside", "over", "past", "per", "plus", "regarding", "round",
      "save", "since", "than", "through", "till", "to", "toward", "under",
      "underneath", "unlike", "until", "up", "upon", "versus", "via",
      "with", "within", "without"}

\* AllowedDeterminers::init.
allowed_determiners ==
     {"my", "our", "your", "his", "her", "its", "their",
      "first", "second", "third", "next", "last", "much", "some", "no",
      "any", "many", "enough", "several", "little", "all", "lot of",
      "plenty of", "another", "a", "an", "the", "each", "every", "neither",
      "either", "one", "two", "three", "ten", "fifty", "hundred",
      "thousand"}

\* AllowedMovements::init.
allowed_movements ==
     {"go", "move", "run", "walk", "jog", "amble", "dart",
      "limp", "saunter", "scamper", "scurry", "stagger", "strut",
      "swagger", "tiptoe", "waltz", "sneak"}

\* AllowedDirections::init.
allowed_directions ==
     {"north", "south", "east", "west", "up", "down", "left",
      "right"}


\* ---------------------------------------------------------------------
\* World state
\* ---------------------------------------------------------------------

VARIABLES
    config,         \* State.config: the catalog the State was built from
    current_room,   \* State.current_room
    inventory,      \* State.player.inventory.items
    stash,          \* room id -> Room.stash.items
    subjects,       \* room id -> Room.subjects
    narrative,      \* room id -> Room.narrative
    completed,      \* event id -> config.events[..].completed
    room_events,    \* event id -> completed of the event's copy in Room.events
    aborted,        \* TRUE once a command has panicked
    steps,          \* number of commands processed so far
    last            \* what the last command was and returned

vars == <<config, current_room, inventory, stash, subjects, narrative,
          completed, room_events, aborted, steps, last>>

\* The mutable State as one value.
State ==
    [current_room |-> current_room, inventory |-> inventory,
     stash |-> stash, subjects |-> subjects, narrative |-> narrative,
     completed |-> completed, room_events |-> room_events]

\* ---------------------------------------------------------------------
\* Vec helpers
\* ---------------------------------------------------------------------

Contains(s, x) == \E i \in DOMAIN s : s[i] = x

\* Iterator::position: the first index holding x (0 if none).
Position(s, x) ==
    IF Contains(s, x) THEN CHOOSE i \in DOMAIN s : s[i] = x /\ \A j \in 1..(i - 1) : s[j] # x
    ELSE 0

\* Vec::remove(index).
RemoveAt(s, i) == SubSeq(s, 1, i - 1) \o SubSeq(s, i + 1, Len(s))

\* ---------------------------------------------------------------------
\* Rooms
\* ---------------------------------------------------------------------

RoomIdsOf(cfg) == {cfg.room_blueprints[i].id : i \in DOMAIN cfg.room_blueprints}

RoomIds == RoomIdsOf(config)

BlueprintOf(cfg, r) ==
    cfg.room_blueprints[CHOOSE i \in DOMAIN cfg.room_blueprints : cfg.room_blueprints[i].id = r]

EventIdsOf(cfg) == {cfg.events[i].id : i \in DOMAIN cfg.events}

EventIds == EventIdsOf(config)

EventById(id) == config.events[CHOOSE i \in DOMAIN config.events : config.events[i].id = id]

\* Room.events: the catalog's events located in room r, in catalog order.
RoomEvents(cfg, r) ==
    LET InRoom(e) == e.location = r IN SelectSeq(cfg.events, InRoom)

\* Room::add_subject.
add_subject(room_subjects, subject) == Append(room_subjects, subject)

\* Room::remove_subject.
remove_subject(room_subjects, subject_id) ==
    LET Other(x) == x # subject_id IN SelectSeq(room_subjects, Other)

\* A variant of can_move that follows the last exit in that direction.
can_move_last(exits, direction) ==
    LET Matching(exit) == exit.direction = direction
        found == SelectSeq(exits, Matching)
    IN  IF found # <<>> THEN [ok |-> TRUE, room_id |-> found[Len(found)].room_id]
        ELSE [ok |-> FALSE, room_id |-> None]

\* Room::can_move: the destination of the first exit in that direction.
can_move(exits, direction) ==
    LET Matching(exit) == exit.direction = direction
        found == SelectSeq(exits, Matching)
    IN  IF found # <<>> THEN [ok |-> TRUE, room_id |-> found[1].room_id]
        ELSE [ok |-> FALSE, room_id |-> None]

\* Storage::add_item.
add_item(items, item) == Append(items, item)

\* Storage::remove_item: removes the first item of that name.
remove_item(items, item) ==
    LET i == Position(items, item)
    IN  IF i # 0 THEN [ok |-> TRUE, items |-> RemoveAt(items, i)]
        ELSE [ok |-> FALSE, items |-> items]


\* ---------------------------------------------------------------------
\* Actions (the value Action::parse hands to the dispatcher)
\* ---------------------------------------------------------------------

Action(verb, item, subject, movement) ==
    [verb |-> verb, item |-> item, subject |-> subject, movement |-> movement]

\* A variant of is_valid that wants a verb to come with an item, a subject
\* or a movement.
is_valid_accompanied(a) ==
    IF a.verb # None
    THEN a.item # None \/ a.subject # None \/ a.movement # NoDirection
    ELSE a.movement # NoDirection

\* Action::is_valid.
is_valid(a) ==
    IF a.verb # None
    THEN a.item # None \/ a.subject # None \/ a.movement # NoDirection \/ a.verb # None
    ELSE a.movement # NoDirection

\* A variant of action_type that lets a movement take precedence over a verb
\* alone.
action_type_movement_first(a) ==
    IF is_valid(a) /\ a.verb # None /\ a.item # None /\ a.subject # None THEN "VerbItemSubject"
    ELSE IF is_valid(a) /\ a.verb # None /\ a.subject # None THEN "VerbSubject"
    ELSE IF is_valid(a) /\ a.verb # None /\ a.item # None THEN "VerbItem"
    ELSE IF is_valid(a) /\ a.movement # NoDirection THEN "Movement"
    ELSE IF is_valid(a) /\ a.verb # None THEN "Verb"
    ELSE "Invalid"

\* Action::action_type.
action_type(a) ==
    IF is_valid(a) /\ a.verb # None /\ a.item # None /\ a.subject # None THEN "VerbItemSubject"
    ELSE IF is_valid(a) /\ a.verb # None /\ a.subject # None THEN "VerbSubject"
    ELSE IF is_valid(a) /\ a.verb # None /\ a.item # None THEN "VerbItem"
    ELSE IF is_valid(a) /\ a.verb # None THEN "Verb"
    ELSE IF is_valid(a) /\ a.movement # NoDirection THEN "Movement"
    ELSE "Invalid"

\* The outcome of a handler: the State it leaves, the ParsingResult variant
\* or error it returns ("Panic" when it aborts instead of returning), the
\* payload (the id of the subject whose default_text is returned), the event
\* it selected and the item and subject event resolution bound.  room_text is
\* the RoomText of an EventMessage: the narrative texts it is made of, in
\* order, as narrative ids (<<>> when the result carries no EventMessage);
\* exits and templated_words are the Exits and the templated_words of that
\* EventMessage.
Outcome(s, result, text, selected, item, subject) ==
    [state |-> s, result |-> result, text |-> text, selected |-> selected,
     item |-> item, subject |-> subject, event |-> TRUE, room_text |-> <<>>,
     exits |-> <<>>, templated_words |-> {}]

Errors ==
    {"InvalidEvent", "RequiredEventNotCompleted", "NoItem", "CantPick",
     "InvalidMovement", "InvalidDirection", "InvalidVerb", "InvalidSubject",
     "InvalidNarrative", "InvalidRoom", "NoRoom", "InvalidAction", "EmptyInput"}

\* ---------------------------------------------------------------------
\* Narrative templating
\* ---------------------------------------------------------------------

\* Display for the errors of parser::errors: the sentences to_string can
\* yield.  InvalidEvent draws one of six with rand::thread_rng.
error_messages ==
    [RequiredEventNotCompleted |-> {"The required event has not been completed yet."},
     InvalidEvent |-> {"Perhaps you should try something else.",
                       "Maybe something else needs to be done first.",
                       "You can't do that.",
                       "I don't understand that.",
                       "I don't know how to do that.",
                       "I would do anything for love, but I won't do that."},
     InvalidAction |-> {"The action is not valid."},
     InvalidItem |-> {"The item is invalid."},
     InvalidSubject |-> {"The subject is invalid."},
     InvalidVerb |-> {"The verb is invalid."},
     InvalidMovement |-> {"You can't go that way."},
     InvalidDirection |-> {"You can't go that way."},
     InvalidRoom |-> {"The room is invalid."},
     InvalidVerbItemSubject |-> {"Invalid combination of verb, item, and subject."},
     InvalidVerbSubject |-> {"Invalid combination of verb and subject."},
     InvalidVerbItem |-> {"Invalid combination of verb and item."},
     ParsingRoomText |-> {"There was an error parsing the text for the room."},
     NoRoom |-> {"This room doesn't exist."},
     CantPick |-> {"You can't pick that up."},
     NoItem |-> {"You're not carrying that."},
     ItemNotFound |-> {"The item can't be found."},
     EmptyInput |-> {"No input. Nothing to process."},
     InvalidNarrative |-> {"The narrative is invalid."}]

\* A text is the sequence of its symbols: a brace, a line break ("\n") or a
\* word; a word is never split, so a string equals a name exactly when it is
\* that one word.

\* str::lines: the lines of a text, without their line breaks; a line break
\* at the very end opens no further line.
RECURSIVE lines(_)
lines(text) ==
    IF text = <<>> THEN <<>>
    ELSE LET breaks == {i \in DOMAIN text : text[i] = "\n"}
         IN  IF breaks = {} THEN <<text>>
             ELSE LET first == CHOOSE i \in breaks : \A j \in breaks : i <= j
                  IN  <<SubSeq(text, 1, first - 1)>>
                      \o lines(SubSeq(text, first + 1, Len(text)))

\* [String]::join("\n").
RECURSIVE join_lines(_)
join_lines(sentences) ==
    IF sentences = <<>> THEN <<>>
    ELSE IF Len(sentences) = 1 THEN sentences[1]
    ELSE sentences[1] \o <<"\n">> \o join_lines(Tail(sentences))

\* Regex \{(.*?)\} with captures_iter: the matches of a line from position
\* from on, each from a "{" to the first "}" after it, with the positions of
\* the two braces and the text between them.
RECURSIVE captures_iter(_, _)
captures_iter(sentence, from) ==
    LET opens == {i \in from..Len(sentence) : sentence[i] = "{"}
    IN  IF opens = {} THEN <<>>
        ELSE LET start == CHOOSE i \in opens : \A j \in opens : i <= j
                 closes == {i \in (start + 1)..Len(sentence) : sentence[i] = "}"}
             IN  IF closes = {} THEN <<>>
                 ELSE LET end == CHOOSE i \in closes : \A j \in closes : i <= j
                      IN  <<[start |-> start, end |-> end,
                             text |-> SubSeq(sentence, start + 1, end - 1)]>>
                          \o captures_iter(sentence, end + 1)

\* TemplateCapturesIter: next pops, so the captures come from the last to
\* the first.
TemplateCapturesIter(captures) ==
    [k \in DOMAIN captures |-> captures[Len(captures) + 1 - k]]

\* process_templated_text, the loop over the captures of one line: each
\* capture's span, at the positions it had in the line, is replaced by its
\* text.
RECURSIVE replace_captures(_, _)
replace_captures(extracted_text, captures) ==
    IF captures = <<>> THEN extracted_text
    ELSE LET capture == Head(captures)
         IN  replace_captures(
                 SubSeq(extracted_text, 1, capture.start - 1) \o capture.text
                     \o SubSeq(extracted_text, capture.end + 1, Len(extracted_text)),
                 Tail(captures))

\* process_templated_text: the processed text and the captured texts found
\* among items_and_subjects.
process_templated_text(text, items_and_subjects) ==
    LET Processed(sentence) ==
            replace_captures(sentence, TemplateCapturesIter(captures_iter(sentence, 1)))
        sentences == lines(text)
    IN  [text |-> join_lines([k \in DOMAIN sentences |-> Processed(sentences[k])]),
         templated_words |->
             {capture[1] : capture \in
                 {c.text : c \in UNION {{captures_iter(sentences[k], 1)[n] :
                                             n \in DOMAIN captures_iter(sentences[k], 1)} :
                                         k \in DOMAIN sentences}}
                 \cap {<<name>> : name \in items_and_subjects}}]

\* A variant of items_and_subjects that leaves the event's items out.
items_and_subjects_present(s, event_id) ==
    LET Names(items) == {item_name[items[k]] : k \in DOMAIN items}
    IN  Names(s.inventory) \cup Names(s.stash[s.current_room])
        \cup {subject_name[s.subjects[s.current_room][k]] :
                 k \in DOMAIN s.subjects[s.current_room]}

\* parse_room_text, the names the templated words are looked up in: the
\* items of the inventory and of the current room's stash, the add_item and
\* remove_item of the event and the subjects of the current room.
items_and_subjects(s, event_id) ==
    LET Names(items) == {item_name[items[k]] : k \in DOMAIN items}
        event_items ==
            IF event_id \in EventIds
            THEN {EventById(event_id).add_item, EventById(event_id).remove_item}
                     \cap config.items
            ELSE {}
    IN  Names(s.inventory) \cup Names(s.stash[s.current_room])
        \cup {item_name[i] : i \in event_items}
        \cup {subject_name[s.subjects[s.current_room][k]] :
                 k \in DOMAIN s.subjects[s.current_room]}

\* parse_room_text: the EventMessage.  templated_words, a sorted list without
\* duplicates, is the set of its words; Exits lists the exits of the current
\* room.
parse_room_text(s, narrative_text, event_message, event_id) ==
    IF s.current_room \notin RoomIds THEN [result |-> "InvalidRoom"]
    ELSE LET room == process_templated_text(narrative_text,
                                                 items_and_subjects(s, event_id))
             event == process_templated_text(event_message,
                                                  items_and_subjects(s, event_id))
         IN  [result |-> "Ok",
              RoomText |-> room.text,
              EventText |-> event.text,
              Exits |-> BlueprintOf(config, s.current_room).exits,
              templated_words |-> room.templated_words \cup event.templated_words]

\* ParsingResult::EventSuccess(new_room_text): the outcome with the Exits
\* and the templated_words of the EventMessage.
with_message(out, message) ==
    [out EXCEPT !.exits = message.Exits, !.templated_words = message.templated_words]

\* A variant of new_room_text that renders in the room the event leads to.
new_room_text_at_destination(s, narrative_id, event_id) ==
    LET there == IF event_id \in EventIds /\ EventById(event_id).destination # None
                 THEN [s EXCEPT !.current_room = EventById(event_id).destination]
                 ELSE s
    IN  parse_room_text(there, config.texts[narrative_id], <<>>, event_id)

\* The EventMessage of handle_event and handle_movement: parse_room_text on
\* the text of the narrative, in the State as it is at the call.  The event
\* message, which has no placeholders, is left out.
new_room_text(s, narrative_id, event_id) ==
    parse_room_text(s, config.texts[narrative_id], <<>>, event_id)


\* ---------------------------------------------------------------------
\* Event resolution (handle_event)
\* ---------------------------------------------------------------------

\* A variant of extract_item_subject that binds the action's subject wherever
\* the subject is.
extract_item_any_subject(s, a) ==
    IF s.current_room \notin RoomIds THEN [item |-> None, subject |-> None]
    ELSE [item    |-> IF a.item # None /\ Contains(s.inventory, a.item)
                      THEN a.item ELSE None,
          subject |-> a.subject]

\* A variant of extract_item_subject that binds the action's item whether
\* or not the player holds it.
extract_any_item_subject(s, a) ==
    IF s.current_room \notin RoomIds THEN [item |-> None, subject |-> None]
    ELSE [item    |-> a.item,
          subject |-> IF a.subject # None /\ Contains(s.subjects[s.current_room], a.subject)
                      THEN a.subject ELSE None]

\* extract_item_subject: the action's item if the player holds it, the
\* action's subject if it is in the current room.
extract_item_subject(s, a) ==
    IF s.current_room \notin RoomIds THEN [item |-> None, subject |-> None]
    ELSE [item    |-> IF a.item # None /\ Contains(s.inventory, a.item)
                      THEN a.item ELSE None,
          subject |-> IF a.subject # None /\ Contains(s.subjects[s.current_room], a.subject)
                      THEN a.subject ELSE None]

\* A variant of EventMatches that compares only what the action binds and
\* ignores what else the event requires.
EventMatchesLoosely(e, verb, item, subject) ==
    /\ verb # None /\ e.required_verb = verb
    /\ item # None \/ subject # None
    /\ item # None => e.required_item = item
    /\ subject # None => e.required_subject = subject

\* The three filters of handle_event: whether event e matches the verb and
\* the bound item and subject.
EventMatches(e, verb, item, subject) ==
    IF verb # None /\ subject # None /\ item # None
    THEN /\ e.required_verb # None /\ e.required_subject # None /\ e.required_item # None
         /\ e.required_item = item
         /\ e.required_verb = verb
         /\ e.required_subject = subject
    ELSE IF verb # None /\ subject # None /\ item = None
    THEN /\ e.required_verb # None /\ e.required_subject # None
         /\ e.required_verb = verb
         /\ e.required_subject = subject
         /\ e.required_item = None
    ELSE IF verb # None /\ subject = None /\ item # None
    THEN /\ e.required_verb # None /\ e.required_item # None
         /\ e.required_verb = verb
         /\ e.required_item = item
         /\ e.required_subject = None
    ELSE FALSE

\* A variant of Candidates that filters the whole catalog instead of the
\* current room's events.
CandidatesAnywhere(room, verb, item, subject) ==
    LET Match(e) == EventMatches(e, verb, item, subject)
    IN  SelectSeq(config.events, Match)

\* The candidate events: those of the room the player is in that match.
Candidates(room, verb, item, subject) ==
    LET Match(e) == EventMatches(e, verb, item, subject)
    IN  SelectSeq(RoomEvents(config, room), Match)

\* A variant of FirstUncompleted that disregards the completed flag: the
\* first candidate, completed or not.
FirstCandidate(events, done) ==
    IF events # <<>> THEN events[1].id ELSE None

\* A variant of FirstUncompleted that passes over the candidates with a
\* required event not completed: the first candidate that can run.
FirstReady(events, done) ==
    LET Ready(e) == /\ e.id \in DOMAIN done /\ ~done[e.id]
                    /\ \A id \in DOMAIN done : id \in e.required_events => done[id]
        ready == SelectSeq(events, Ready)
    IN  IF ready # <<>> THEN ready[1].id ELSE None

\* events.iter().find(..): the first candidate whose catalog entry is not
\* completed (None if there is none).
FirstUncompleted(events, done) ==
    LET Open(e) == e.id \in DOMAIN done /\ ~done[e.id]
        open == SelectSeq(events, Open)
    IN  IF open # <<>> THEN open[1].id ELSE None

\* A variant of required_events_completed that never blocks.
required_events_ignored(e, done) == TRUE

\* required_events_completed.
required_events_completed(e, done) ==
    \A id \in DOMAIN done : id \in e.required_events => done[id]


\* player_receive_item: the item is pushed onto the inventory.
player_receive_item(s, item) ==
    [s EXCEPT !.inventory = add_item(s.inventory, item)]

\* player_remove_item: the first item of that name leaves the inventory;
\* an error (ok = FALSE) if the player does not hold it.
player_remove_item(s, item) ==
    LET r == remove_item(s.inventory, item)
    IN  [ok |-> r.ok, state |-> [s EXCEPT !.inventory = r.items]]

\* handle_event, `if let Some(item_id) = &event.add_item`.
apply_add_item(s, e) ==
    IF e.add_item # None /\ e.add_item \in config.items
    THEN player_receive_item(s, e.add_item)
    ELSE s

\* handle_event, the remove_item block.  The error of player_remove_item is
\* a boxed NoItem; downcast::<Box<NoItem>>() of it is an Err and the unwrap()
\* panics: ok = FALSE stands for that abort.
apply_remove_item(s, e) ==
    IF e.remove_item # None /\ e.remove_item \in config.items
    THEN player_remove_item(s, e.remove_item)
    ELSE [ok |-> TRUE, state |-> s]

\* A variant of apply_remove_subject that adds the subject to the target
\* room and leaves it in the current room as well.
apply_remove_subject_copying(s, e, subject, room) ==
    IF ~e.remove_subject THEN [result |-> "Ok", state |-> s]
    ELSE IF subject = None THEN [result |-> "InvalidEvent", state |-> s]
    ELSE IF e.move_subject_to_location = None
    THEN [result |-> "Ok",
          state  |-> [s EXCEPT !.subjects[room] = remove_subject(@, subject)]]
    ELSE IF e.move_subject_to_location \notin RoomIds
    THEN [result |-> "Panic", state |-> s]
    ELSE [result |-> "Ok",
          state  |-> [s EXCEPT !.subjects[e.move_subject_to_location] =
                                   add_subject(@, subject)]]

\* handle_event, `if event.remove_subject`: result "Ok", or "InvalidEvent"
\* when no subject is bound, or "Panic" when the target room does not exist.
apply_remove_subject(s, e, subject, room) ==
    IF ~e.remove_subject THEN [result |-> "Ok", state |-> s]
    ELSE IF subject = None THEN [result |-> "InvalidEvent", state |-> s]
    ELSE LET removed == [s EXCEPT !.subjects[room] = remove_subject(@, subject)]
         IN  IF e.move_subject_to_location = None
             THEN [result |-> "Ok", state |-> removed]
             ELSE IF e.move_subject_to_location \notin RoomIds
             THEN [result |-> "Panic", state |-> removed]
             ELSE [result |-> "Ok",
                   state  |-> [removed EXCEPT !.subjects[e.move_subject_to_location] =
                                                  add_subject(@, subject)]]

\* handle_event, `if let Some(new_subject_id) = event.add_subject`.
apply_add_subject(s, e, room) ==
    IF e.add_subject = None THEN [result |-> "Ok", state |-> s]
    ELSE IF e.add_subject \notin config.subjects THEN [result |-> "Panic", state |-> s]
    ELSE [result |-> "Ok",
          state  |-> [s EXCEPT !.subjects[room] = add_subject(@, e.add_subject)]]

\* State::set_narrative.
set_narrative(s, narrative_id) ==
    [s EXCEPT !.narrative[s.current_room] = narrative_id]

\* State::is_event_completed: the completed flag of the event's copy in the
\* room that holds it, false when no room holds the event.
is_event_completed(s, event_id) ==
    IF event_id \in DOMAIN s.room_events THEN s.room_events[event_id] ELSE FALSE

\* handle_event, `if event.remove_old_narrative`.
apply_narrative_after(s, e) ==
    IF e.remove_old_narrative /\ e.narrative_after # None
    THEN set_narrative(s, e.narrative_after)
    ELSE s

\* return_formated_message: the narrative text handed to parse_room_text as
\* the room text, which is the text of the event's narrative.
return_formated_message(s, e) == <<e.narrative>>

\* return_formated_message: whether the event's narrative is found.
has_narrative(e) == e.narrative # None /\ e.narrative \in config.narratives

\* A variant of mark_completed that keeps only the latest completion.
mark_only_latest(s, e) ==
    IF e.id \in DOMAIN s.completed
    THEN [s EXCEPT !.current_room = IF e.destination # None THEN e.destination ELSE @,
                   !.completed = [id \in DOMAIN @ |-> id = e.id]]
    ELSE s

\* A variant of mark_completed that leaves the player where they are.
mark_completed_in_place(s, e) ==
    IF e.id \in DOMAIN s.completed
    THEN [s EXCEPT !.completed[e.id] = TRUE]
    ELSE s

\* handle_event, "completes the event so it can't be repeated".
mark_completed(s, e) ==
    IF e.id \in DOMAIN s.completed
    THEN [s EXCEPT !.current_room = IF e.destination # None THEN e.destination ELSE @,
                   !.completed[e.id] = TRUE]
    ELSE s

\* A variant of resolve_event that applies remove_item before add_item and
\* add_subject before remove_subject.
resolve_event_removing_first(s, e, b, room) ==
    IF ~required_events_completed(e, s.completed)
    THEN Outcome(s, "RequiredEventNotCompleted", None, e.id, b.item, b.subject)
    ELSE
    LET r1 == apply_remove_item(s, e)
        s2 == apply_add_item(r1.state, e)
        r3 == apply_add_subject(s2, e, room)
        r4 == apply_remove_subject(r3.state, e, b.subject, room)
        s5 == apply_narrative_after(r4.state, e)
    IN  IF ~r1.ok THEN Outcome(s, "Panic", None, e.id, b.item, b.subject)
        ELSE IF r3.result # "Ok" THEN Outcome(r3.state, r3.result, None, e.id, b.item, b.subject)
        ELSE IF r4.result # "Ok" THEN Outcome(r4.state, r4.result, None, e.id, b.item, b.subject)
        ELSE IF ~has_narrative(e)
        THEN Outcome(s5, "InvalidNarrative", None, e.id, b.item, b.subject)
        ELSE with_message(
                 [Outcome(mark_completed(s5, e), "EventSuccess", None, e.id, b.item, b.subject)
                     EXCEPT !.room_text = return_formated_message(s5, e)],
                 new_room_text(s5, e.narrative, e.id))

\* A variant of resolve_event that marks the selected event completed
\* before it looks at the required events.
resolve_event_marking(s, e, b, room) ==
    IF ~required_events_completed(e, s.completed)
    THEN Outcome(mark_completed_in_place(s, e), "RequiredEventNotCompleted", None, e.id,
                 b.item, b.subject)
    ELSE
    LET s1 == apply_add_item(s, e)
        r2 == apply_remove_item(s1, e)
        r3 == apply_remove_subject(r2.state, e, b.subject, room)
        r4 == apply_add_subject(r3.state, e, room)
        s5 == apply_narrative_after(r4.state, e)
    IN  IF ~r2.ok THEN Outcome(s1, "Panic", None, e.id, b.item, b.subject)
        ELSE IF r3.result # "Ok" THEN Outcome(r3.state, r3.result, None, e.id, b.item, b.subject)
        ELSE IF r4.result # "Ok" THEN Outcome(r4.state, r4.result, None, e.id, b.item, b.subject)
        ELSE IF ~has_narrative(e)
        THEN Outcome(s5, "InvalidNarrative", None, e.id, b.item, b.subject)
        ELSE with_message(
                 [Outcome(mark_completed(s5, e), "EventSuccess", None, e.id, b.item, b.subject)
                     EXCEPT !.room_text = return_formated_message(s5, e)],
                 new_room_text(s5, e.narrative, e.id))

\* handle_event from the prerequisite check on, for the selected event e.
resolve_event(s, e, b, room) ==
    IF ~required_events_completed(e, s.completed)
    THEN Outcome(s, "RequiredEventNotCompleted", None, e.id, b.item, b.subject)
    ELSE
    LET s1 == apply_add_item(s, e)
        r2 == apply_remove_item(s1, e)
        r3 == apply_remove_subject(r2.state, e, b.subject, room)
        r4 == apply_add_subject(r3.state, e, room)
        s5 == apply_narrative_after(r4.state, e)
    IN  IF ~r2.ok THEN Outcome(s1, "Panic", None, e.id, b.item, b.subject)
        ELSE IF r3.result # "Ok" THEN Outcome(r3.state, r3.result, None, e.id, b.item, b.subject)
        ELSE IF r4.result # "Ok" THEN Outcome(r4.state, r4.result, None, e.id, b.item, b.subject)
        ELSE IF ~has_narrative(e)
        THEN Outcome(s5, "InvalidNarrative", None, e.id, b.item, b.subject)
        ELSE with_message(
                 [Outcome(mark_completed(s5, e), "EventSuccess", None, e.id, b.item, b.subject)
                     EXCEPT !.room_text = return_formated_message(s5, e)],
                 new_room_text(s5, e.narrative, e.id))

\* handle_event.
handle_event(s, a) ==
    IF s.current_room \notin RoomIds
    THEN Outcome(s, "InvalidRoom", None, None, None, None)
    ELSE
    LET room == s.current_room
        b    == extract_item_subject(s, a)
        events == Candidates(room, a.verb, b.item, b.subject)
        id   == FirstUncompleted(events, s.completed)
    IN  IF id = None
        THEN IF b.subject # None
             THEN Outcome(s, "SubjectNoEvent", b.subject, None, b.item, b.subject)
             ELSE Outcome(s, "InvalidEvent", None, None, b.item, b.subject)
        ELSE resolve_event(s, EventById(id), b, room)


\* ---------------------------------------------------------------------
\* Take, drop, look, movement
\* ---------------------------------------------------------------------

Plain(s, result) ==
    [state |-> s, result |-> result, text |-> None, selected |-> None,
     item |-> None, subject |-> None, event |-> FALSE, room_text |-> <<>>,
     exits |-> <<>>, templated_words |-> {}]

\* player_get_item: the item moves from the current room's stash to the
\* inventory; the message names the item.
player_get_item(s, item) ==
    LET r == remove_item(s.stash[s.current_room], item)
    IN  IF r.ok
        THEN [Plain([s EXCEPT !.stash[s.current_room] = r.items,
                              !.inventory = add_item(@, item)], "NewItem")
                 EXCEPT !.text = item]
        ELSE Plain(s, "NoItem")

\* A variant of pick_item that takes whatever lies in the room.
pick_item_unchecked(s, item) ==
    IF s.current_room \notin RoomIds THEN Plain(s, "NoRoom")
    ELSE IF Contains(s.stash[s.current_room], item)
    THEN player_get_item(s, item)
    ELSE Plain(s, "NoItem")

\* pick_item.
pick_item(s, item) ==
    IF s.current_room \notin RoomIds THEN Plain(s, "NoRoom")
    ELSE IF Contains(s.stash[s.current_room], item)
    THEN IF config.can_pick[item] THEN player_get_item(s, item)
         ELSE Plain(s, "CantPick")
    ELSE Plain(s, "NoItem")

\* A variant of drop_item that discards the item instead of leaving it in
\* the room.
drop_item_discard(s, item) ==
    IF s.current_room \notin RoomIds THEN Plain(s, "NoRoom")
    ELSE IF Contains(s.inventory, item)
    THEN LET r == player_remove_item(s, item)
         IN  IF r.ok
             THEN [Plain(r.state, "DropItem") EXCEPT !.text = item]
             ELSE Plain(s, "NoItem")
    ELSE Plain(s, "NoItem")

\* drop_item; the message names the item.
drop_item(s, item) ==
    IF s.current_room \notin RoomIds THEN Plain(s, "NoRoom")
    ELSE IF Contains(s.inventory, item)
    THEN LET r == player_remove_item(s, item)
         IN  IF r.ok
             THEN [Plain([r.state EXCEPT !.stash[s.current_room] = add_item(@, item)],
                         "DropItem")
                      EXCEPT !.text = item]
             ELSE Plain(s, "NoItem")
    ELSE Plain(s, "NoItem")

\* look_item, look_subject, look_room: no state change.
look_item(s, item) ==
    IF s.current_room \notin RoomIds THEN Plain(s, "NoRoom") ELSE Plain(s, "Look")

look_subject(s, subject) ==
    IF s.current_room \notin RoomIds THEN Plain(s, "NoRoom") ELSE Plain(s, "Look")

look_room(s) ==
    IF s.current_room \notin RoomIds THEN Plain(s, "NoRoom") ELSE Plain(s, "Look")

\* show_inventory, display_help.
show_inventory(s) == Plain(s, "Inventory")

display_help(s) == Plain(s, "Help")

\* A variant of move_to_direction that reports a move where there is no exit.
move_to_direction_lenient(s, direction) ==
    IF s.current_room \in RoomIds
    THEN LET r == can_move(BlueprintOf(config, s.current_room).exits, direction)
         IN  IF r.ok THEN Plain([s EXCEPT !.current_room = r.room_id], "MoveSuccess")
             ELSE Plain(s, "MoveSuccess")
    ELSE Plain(s, "NoRoom")

\* move_to_direction.
move_to_direction(s, direction) ==
    IF s.current_room \in RoomIds
    THEN LET r == can_move(BlueprintOf(config, s.current_room).exits, direction)
         IN  IF r.ok THEN Plain([s EXCEPT !.current_room = r.room_id], "MoveSuccess")
             ELSE Plain(s, "InvalidMovement")
    ELSE Plain(s, "NoRoom")

\* A variant of handle_movement that completes the events of the room the
\* player enters.
handle_movement_entering(s, movement) ==
    IF movement = NoDirection THEN Plain(s, "InvalidDirection")
    ELSE LET m == move_to_direction(s, movement)
         IN  IF m.result # "MoveSuccess" THEN m
             ELSE IF m.state.current_room \notin RoomIds THEN Plain(m.state, "InvalidRoom")
             ELSE IF m.state.narrative[m.state.current_room] \notin config.narratives
             THEN Plain(m.state, "InvalidNarrative")
             ELSE [Plain([m.state EXCEPT !.completed =
                             [id \in DOMAIN @ |->
                                 @[id] \/ EventById(id).location = m.state.current_room]],
                        "EventSuccess")
                      EXCEPT !.room_text = <<m.state.narrative[m.state.current_room]>>,
                             !.exits = BlueprintOf(config, m.state.current_room).exits]

\* handle_movement: after the move, the new room and its narrative are
\* looked up to render the room text.
handle_movement(s, movement) ==
    IF movement = NoDirection THEN Plain(s, "InvalidDirection")
    ELSE LET m == move_to_direction(s, movement)
         IN  IF m.result # "MoveSuccess" THEN m
             ELSE IF m.state.current_room \notin RoomIds THEN Plain(m.state, "InvalidRoom")
             ELSE IF m.state.narrative[m.state.current_room] \notin config.narratives
             THEN Plain(m.state, "InvalidNarrative")
             ELSE with_message(
                      [Plain(m.state, "EventSuccess")
                          EXCEPT !.room_text = <<m.state.narrative[m.state.current_room]>>],
                      new_room_text(m.state, m.state.narrative[m.state.current_room], None))

\* ---------------------------------------------------------------------
\* Dispatch
\* ---------------------------------------------------------------------

\* A variant of handle_verb_subject that forwards only the verbs events are
\* written for.
handle_verb_subject_strict(s, a) ==
    IF a.verb = None THEN Plain(s, "InvalidVerb")
    ELSE IF a.subject = None THEN Plain(s, "InvalidSubject")
    ELSE IF a.verb \in allowed_verbs
    THEN IF verb_function[a.verb] = "Look" THEN look_subject(s, a.subject)
         ELSE IF verb_function[a.verb] \in {"Normal", "Talk"} THEN handle_event(s, a)
         ELSE Plain(s, "InvalidVerb")
    ELSE Plain(s, "InvalidVerb")

\* handle_verb_subject.
handle_verb_subject(s, a) ==
    IF a.verb = None THEN Plain(s, "InvalidVerb")
    ELSE IF a.subject = None THEN Plain(s, "InvalidSubject")
    ELSE IF a.verb \in allowed_verbs
    THEN IF verb_function[a.verb] = "Look" THEN look_subject(s, a.subject)
         ELSE handle_event(s, a)
    ELSE Plain(s, "InvalidVerb")

\* A variant of handle_verb_item that forwards every verb it has no logic
\* for to event resolution.
handle_verb_item_forwarding(s, a) ==
    IF a.verb = None THEN Plain(s, "InvalidVerb")
    ELSE IF a.verb \in allowed_verbs
    THEN IF a.item # None
         THEN CASE verb_function[a.verb] = "Take" -> pick_item(s, a.item)
                [] verb_function[a.verb] = "Drop" -> drop_item(s, a.item)
                [] verb_function[a.verb] = "Look" -> look_item(s, a.item)
                [] OTHER -> handle_event(s, a)
         ELSE Plain(s, "NoItem")
    ELSE Plain(s, "InvalidVerb")

\* handle_verb_item.
handle_verb_item(s, a) ==
    IF a.verb = None THEN Plain(s, "InvalidVerb")
    ELSE IF a.verb \in allowed_verbs
    THEN IF a.item # None
         THEN CASE verb_function[a.verb] = "Take" -> pick_item(s, a.item)
                [] verb_function[a.verb] = "Drop" -> drop_item(s, a.item)
                [] verb_function[a.verb] = "Look" -> look_item(s, a.item)
                [] verb_function[a.verb] = "Normal" -> handle_event(s, a)
                [] OTHER -> Plain(s, "InvalidVerb")
         ELSE Plain(s, "NoItem")
    ELSE Plain(s, "InvalidVerb")

\* A variant of handle_verb that treats a Normal verb as an unknown one.
handle_verb_strict(s, a) ==
    IF a.verb = None THEN Plain(s, "InvalidVerb")
    ELSE IF a.verb \in allowed_verbs
    THEN CASE verb_function[a.verb] = "Quit" -> Plain(s, "Quit")
           [] verb_function[a.verb] = "Help" -> display_help(s)
           [] verb_function[a.verb] = "Look" -> look_room(s)
           [] verb_function[a.verb] = "Inventory" -> show_inventory(s)
           [] verb_function[a.verb] = "Take" -> handle_verb_item(s, a)
           [] verb_function[a.verb] = "Drop" -> handle_verb_item(s, a)
           [] verb_function[a.verb] = "Talk" -> handle_verb_subject(s, a)
           [] OTHER -> Plain(s, "InvalidVerb")
    ELSE Plain(s, "InvalidVerb")

\* handle_verb.
handle_verb(s, a) ==
    IF a.verb = None THEN Plain(s, "InvalidVerb")
    ELSE IF a.verb \in allowed_verbs
    THEN CASE verb_function[a.verb] = "Quit" -> Plain(s, "Quit")
           [] verb_function[a.verb] = "Help" -> display_help(s)
           [] verb_function[a.verb] = "Look" -> look_room(s)
           [] verb_function[a.verb] = "Inventory" -> show_inventory(s)
           [] verb_function[a.verb] = "Take" -> handle_verb_item(s, a)
           [] verb_function[a.verb] = "Drop" -> handle_verb_item(s, a)
           [] verb_function[a.verb] = "Talk" -> handle_verb_subject(s, a)
           [] verb_function[a.verb] = "Normal" -> handle_event(s, a)
           [] OTHER -> Plain(s, "InvalidVerb")
    ELSE Plain(s, "InvalidVerb")

\* process_action.
process_action(s, a) ==
    CASE action_type(a) = "VerbItemSubject" -> handle_event(s, a)
      [] action_type(a) = "VerbSubject" -> handle_verb_subject(s, a)
      [] action_type(a) = "VerbItem" -> handle_verb_item(s, a)
      [] action_type(a) = "Verb" -> handle_verb(s, a)
      [] action_type(a) = "Movement" -> handle_movement(s, a.movement)
      [] OTHER -> Plain(s, "InvalidEvent")

\* parser::parse, from the parsed Action on.
parse(s, a) ==
    IF is_valid(a) THEN process_action(s, a) ELSE Plain(s, "InvalidAction")


\* ---------------------------------------------------------------------
\* Action::parse: from the input string to the Action
\* ---------------------------------------------------------------------

\* An input string is the sequence of its words, which a single space
\* separates; <<>> is the empty string.

\* str::to_lowercase, over the words of the vocabulary ("The" is the one
\* with an upper-case letter).
to_lowercase(word) == IF word = "The" THEN "the" ELSE word

\* str::split(' '): the empty string splits into one empty word.
split(input) == IF input = <<>> THEN <<"">> ELSE input

\* A variant of filter_words that compares the words as they were typed.
filter_words_as_typed(words) ==
    LET Kept(w) == w \notin allowed_prepositions /\ w \notin allowed_determiners
    IN  SelectSeq(words, Kept)

\* Action::parse, the filter that drops prepositions and determiners.
filter_words(words) ==
    LET Kept(w) == /\ to_lowercase(w) \notin allowed_prepositions
                   /\ to_lowercase(w) \notin allowed_determiners
    IN  SelectSeq(words, Kept)

\* extract_verb: the first allowed verb one of whose names is the first
\* token.
extract_verb(s, command_tokens) ==
    LET named == {v \in allowed_verbs : command_tokens[1] \in verb_names[v]}
    IN  IF named = {} THEN None
        ELSE CHOOSE v \in named : \A w \in named : v <= w

\* extract_movement, the match on the direction word.
cardinal(word) ==
    CASE word \in {"north", "n"} -> "north"
      [] word \in {"south", "s"} -> "south"
      [] word \in {"east", "e"} -> "east"
      [] word \in {"west", "w"} -> "west"
      [] OTHER -> NoDirection

\* extract_movement.
extract_movement(s, command_tokens) ==
    CASE Len(command_tokens) = 1 -> cardinal(command_tokens[1])
      [] Len(command_tokens) = 2 ->
            IF /\ command_tokens[1] \in allowed_movements
               /\ command_tokens[2] \in allowed_directions
            THEN cardinal(command_tokens[2])
            ELSE NoDirection
      [] OTHER -> NoDirection

\* The subject of the catalog that has the given name (None if none has).
subject_named(word) ==
    IF \E su \in config.subjects : subject_name[su] = word
    THEN CHOOSE su \in config.subjects : subject_name[su] = word
    ELSE None

\* A variant of extract_subject that only knows the subjects of the current
\* room.
extract_subject_present(s, command_tokens) ==
    LET su == IF Len(command_tokens) < 2 THEN None
              ELSE subject_named(command_tokens[Len(command_tokens)])
    IN  IF su # None /\ Contains(s.subjects[s.current_room], su) THEN su ELSE None

\* extract_subject: the second of two tokens, the last of three or more.
extract_subject(s, command_tokens) ==
    CASE Len(command_tokens) \in {0, 1} -> None
      [] Len(command_tokens) = 2 -> subject_named(command_tokens[2])
      [] OTHER -> subject_named(command_tokens[Len(command_tokens)])

\* The item whose name the regex of extract_item finds in a word: the name
\* may be a part of the word ("item2s" holds "item2").
item_in_word(word) ==
    CASE word = "item1" -> 1
      [] word = "item2" -> 2
      [] word = "item3" -> 3
      [] word = "item2s" -> 2
      [] OTHER -> None

\* extract_item, re.captures(input): the leftmost item name in the input
\* string, prepositions and determiners included.
regex_capture(input) ==
    LET holding == {i \in DOMAIN input : item_in_word(input[i]) \in config.items}
    IN  IF holding = {} THEN None
        ELSE item_in_word(input[CHOOSE i \in holding : \A j \in holding : i <= j])

\* extract_item.
extract_item(s, command_tokens, input) ==
    IF Len(command_tokens) > 1 /\ subject_named(command_tokens[2]) = None
    THEN regex_capture(input)
    ELSE None

\* parse_action; the Action built keeps its command_tokens.
parse_action(s, command_tokens, input) ==
    [action |-> Action(extract_verb(s, command_tokens),
                       extract_item(s, command_tokens, input),
                       extract_subject(s, command_tokens),
                       extract_movement(s, command_tokens)),
     command_tokens |-> command_tokens]

\* Action::parse.
Action_parse(s, input) ==
    LET command_tokens == filter_words(split(input))
    IN  IF command_tokens = <<>>
        THEN [action |-> Action(None, None, None, NoDirection),
              command_tokens |-> <<"">>]
        ELSE parse_action(s, command_tokens, input)

\* parser::parse, from the input string on.
parse_input(s, input) ==
    IF input # <<>>
    THEN CHOOSE out \in {parse(s, a) : a \in {Action_parse(s, input).action}} : TRUE
    ELSE Plain(s, "EmptyInput")


\* ---------------------------------------------------------------------
\* The state machine: one command per step
\* ---------------------------------------------------------------------

\* The Actions Action::parse can build over a catalog, by the ActionType
\* they have: a direction alone; a verb alone, with an item, with a subject,
\* with both; and no verb and no direction.
MovementActions == {Action(None, None, None, d) : d \in Directions}

VerbActions == {Action(v, None, None, NoDirection) : v \in allowed_verbs}

VerbItemActions == {Action(v, i, None, NoDirection) : v \in allowed_verbs, i \in AllItems}

VerbSubjectActions == {Action(v, None, su, NoDirection) : v \in allowed_verbs, su \in AllSubjects}

VerbItemSubjectActions ==
    {Action(v, i, su, NoDirection) : v \in allowed_verbs, i \in AllItems, su \in AllSubjects}

InvalidActions ==
    {Action(None, i, su, NoDirection) : i \in AllItems \cup {None}, su \in AllSubjects \cup {None}}

ActionSpace ==
    MovementActions \cup VerbActions \cup VerbItemActions \cup VerbSubjectActions
    \cup VerbItemSubjectActions \cup InvalidActions

\* State::init for the catalog cfg.
StateInit(cfg) ==
    [current_room |-> 1,
     inventory |-> <<>>,
     stash     |-> [r \in RoomIdsOf(cfg) |-> BlueprintOf(cfg, r).item_ids],
     subjects  |-> [r \in RoomIdsOf(cfg) |-> BlueprintOf(cfg, r).subject_ids],
     narrative |-> [r \in RoomIdsOf(cfg) |-> BlueprintOf(cfg, r).narrative],
     completed |-> [id \in EventIdsOf(cfg) |-> FALSE],
     room_events |-> [id \in EventIdsOf(cfg) |-> FALSE]]

NoCommand ==
    [action |-> Action(None, None, None, NoDirection), room |-> None,
     result |-> "None", text |-> None, selected |-> None, item |-> None,
     subject |-> None, event |-> FALSE, room_text |-> <<>>,
     exits |-> <<>>, templated_words |-> {}]

Init ==
    /\ config \in {Worlds[w] : w \in DOMAIN Worlds}
    /\ current_room = StateInit(config).current_room
    /\ inventory = StateInit(config).inventory
    /\ stash = StateInit(config).stash
    /\ subjects = StateInit(config).subjects
    /\ narrative = StateInit(config).narrative
    /\ completed = StateInit(config).completed
    /\ room_events = StateInit(config).room_events
    /\ aborted = FALSE
    /\ steps = 0
    /\ last = NoCommand

\* One call of parse: the State becomes the one the handler left, also when
\* it returned an error; a panic ends the session.
Command(a) ==
    /\ ~aborted
    /\ steps < MaxSteps
    /\ steps' = steps + 1
    /\ \E out \in {parse(State, a)} :
           /\ current_room' = out.state.current_room
           /\ inventory' = out.state.inventory
           /\ stash' = out.state.stash
           /\ subjects' = out.state.subjects
           /\ narrative' = out.state.narrative
           /\ completed' = out.state.completed
           /\ room_events' = out.state.room_events
           /\ aborted' = (out.result = "Panic")
           /\ last' = [action |-> a, room |-> current_room,
                       result |-> out.result, text |-> out.text,
                       selected |-> out.selected, item |-> out.item,
                       subject |-> out.subject, event |-> out.event,
                       room_text |-> out.room_text, exits |-> out.exits,
                       templated_words |-> out.templated_words]
    /\ UNCHANGED config

DoMovement ==
    \E a \in MovementActions : action_type(a) = "Movement" /\ Command(a)

DoVerb ==
    \E a \in VerbActions : action_type(a) = "Verb" /\ Command(a)

DoVerbItem ==
    \E a \in VerbItemActions : action_type(a) = "VerbItem" /\ Command(a)

DoVerbSubject ==
    \E a \in VerbSubjectActions : action_type(a) = "VerbSubject" /\ Command(a)

DoVerbItemSubject ==
    \E a \in VerbItemSubjectActions : action_type(a) = "VerbItemSubject" /\ Command(a)

DoInvalid ==
    \E a \in InvalidActions : action_type(a) = "Invalid" /\ Command(a)

Next ==
    \/ DoMovement
    \/ DoVerb
    \/ DoVerbItem
    \/ DoVerbSubject
    \/ DoVerbItemSubject
    \/ DoInvalid

Spec == Init /\ [][Next]_vars


\* ---------------------------------------------------------------------
\* The parser alone: one input string, or one Action, given in a State that
\* one earlier command may have changed
\* ---------------------------------------------------------------------

\* The words input strings are made of: a verb name, a movement verb,
\* direction words (a cardinal one, its abbreviation, and an allowed one that
\* is not cardinal), an item name alone and inside a longer word, a subject
\* name, a preposition and a capitalised determiner.
Words ==
    {"take", "go", "south", "s", "down", "item2", "item2s", "subject1",
     "to", "The"}

Inputs == UNION {[1..n -> Words] : n \in 0..MaxWords}

\* Every Action value: each of the four fields absent or present.
AllActions ==
    {Action(v, i, su, d) : v \in allowed_verbs \cup {None}, i \in AllItems \cup {None},
                           su \in AllSubjects \cup {None}, d \in Directions \cup {NoDirection}}

\* The States of the catalog cfg one command after State::init, and
\* State::init itself.
PlayedStates(cfg) ==
    {StateInit(cfg)} \cup
    {parse(StateInit(cfg), a).state :
        a \in {b \in ActionSpace : parse(StateInit(cfg), b).result # "Panic"}}

NoInput ==
    [f \in DOMAIN NoCommand \cup {"input", "command_tokens"} |->
        IF f \in DOMAIN NoCommand THEN NoCommand[f] ELSE <<>>]

ParseInit ==
    /\ config \in {Worlds[w] : w \in DOMAIN Worlds}
    /\ \E s \in PlayedStates(config) :
           /\ current_room = s.current_room
           /\ inventory = s.inventory
           /\ stash = s.stash
           /\ subjects = s.subjects
           /\ narrative = s.narrative
           /\ completed = s.completed
           /\ room_events = s.room_events
    /\ aborted = FALSE
    /\ steps = 0
    /\ last = NoInput

\* One call of parse with an input string.
Type(input) ==
    /\ steps' = steps + 1
    /\ \E out \in {parse_input(State, input)}, parsed \in {Action_parse(State, input)} :
           /\ current_room' = out.state.current_room
           /\ inventory' = out.state.inventory
           /\ stash' = out.state.stash
           /\ subjects' = out.state.subjects
           /\ narrative' = out.state.narrative
           /\ completed' = out.state.completed
           /\ room_events' = out.state.room_events
           /\ aborted' = (out.result = "Panic")
           /\ last' = [input |-> input,
                       command_tokens |-> IF input = <<>> THEN <<>>
                                          ELSE parsed.command_tokens,
                       action |-> IF input = <<>> THEN NoCommand.action
                                  ELSE parsed.action,
                       room |-> current_room,
                       result |-> out.result, text |-> out.text,
                       selected |-> out.selected, item |-> out.item,
                       subject |-> out.subject, event |-> out.event,
                       room_text |-> out.room_text, exits |-> out.exits,
                       templated_words |-> out.templated_words]
    /\ UNCHANGED config

TypeInput == steps = 0 /\ \E input \in Inputs : Type(input)

\* One call of process_action's caller with an Action built field by field.
Dispatch == steps = 0 /\ \E a \in AllActions : Command(a)

ParseNext == TypeInput \/ Dispatch

ParseSpec == ParseInit /\ [][ParseNext]_vars

\* ---------------------------------------------------------------------
\* Rendering: one narrative through parse_room_text, or one command's error
\* through Display
\* ---------------------------------------------------------------------

\* The pieces narratives are built from: a plain word, a placeholder for an
\* item, for a subject and for a word that names nothing, a brace without
\* its partner and a line break.
TextPieces ==
    {<<"a">>, <<"{", "item2", "}">>, <<"{", "subject1", "}">>,
     <<"{", "ghost", "}">>, <<"{">>, <<"\n">>}

RECURSIVE concat(_)
concat(pieces) ==
    IF pieces = <<>> THEN <<>> ELSE Head(pieces) \o concat(Tail(pieces))

Texts == {concat(pieces) : pieces \in UNION {[1..n -> TextPieces] : n \in 0..MaxPieces}}

\* The event messages handle_event passes: none, or a sentence without
\* placeholders.
EventMessages == {<<>>, <<"a">>}

NoRender == [kind |-> "None"]

RenderInit ==
    /\ config \in {Worlds[w] : w \in DOMAIN Worlds}
    /\ \E s \in PlayedStates(config) :
           /\ current_room = s.current_room
           /\ inventory = s.inventory
           /\ stash = s.stash
           /\ subjects = s.subjects
           /\ narrative = s.narrative
           /\ completed = s.completed
           /\ room_events = s.room_events
    /\ aborted = FALSE
    /\ steps = 0
    /\ last = NoRender

\* One call of parse_room_text.
Render ==
    /\ steps = 0
    /\ steps' = steps + 1
    /\ \E narrative_text \in Texts, event_message \in EventMessages,
          event_id \in EventIds \cup {None} :
           \E message \in {parse_room_text(State, narrative_text, event_message, event_id)} :
               last' = [kind |-> "Render", narrative_text |-> narrative_text,
                        event_message |-> event_message, event_id |-> event_id,
                        message |-> message]
    /\ UNCHANGED <<config, current_room, inventory, stash, subjects, narrative,
                   completed, room_events, aborted>>

\* One command that returns an error, its to_string, and the to_string of a
\* new error of the same type.
RenderError ==
    /\ steps = 0
    /\ steps' = steps + 1
    /\ \E a \in ActionSpace :
           \E out \in {parse(State, a)} :
               /\ out.result \in DOMAIN error_messages
               /\ current_room' = out.state.current_room
               /\ inventory' = out.state.inventory
               /\ stash' = out.state.stash
               /\ subjects' = out.state.subjects
               /\ narrative' = out.state.narrative
               /\ completed' = out.state.completed
               /\ room_events' = out.state.room_events
               /\ \E returned \in error_messages[out.result],
                     fresh \in error_messages[out.result] :
                      last' = [kind |-> "Error", action |-> a, error |-> out.result,
                               returned |-> returned, fresh |-> fresh]
    /\ UNCHANGED <<config, aborted>>

RenderNext == Render \/ RenderError

RenderSpec == RenderInit /\ [][RenderNext]_vars

\* ---------------------------------------------------------------------
\* Properties of event resolution
\* ---------------------------------------------------------------------

\* The last command reached event resolution in the room of event e with
\* e's trigger: e's verb and, bound, e's item and subject.
LastTriggered(e) ==
    /\ last.room = e.location
    /\ last.action.verb = e.required_verb
    /\ last.item = e.required_item
    /\ last.subject = e.required_subject
    /\ last.item # None \/ last.subject # None

\* The outcomes of event resolution that apply no effect.
NoEffectResults == {"SubjectNoEvent", "InvalidEvent", "RequiredEventNotCompleted"}

\* C1: once an event has completed no command selects it again, so its
\* effects are never applied a second time: a command that re-issues its
\* trigger selects another event or none, and leaves the State as it was
\* when it selects none.
C1_CompletedNeverSelected ==
    [][\A id \in EventIds :
          completed[id] =>
              /\ last'.selected # id
              /\ (LastTriggered(EventById(id))' /\ last'.selected = None) =>
                     (State' = State /\ last'.result \in NoEffectResults)]_vars

\* C1 witness: the trigger of a completed event was re-issued in its room
\* and selected nothing.
C1_Witness ==
    \E id \in EventIds :
        /\ completed[id]
        /\ LastTriggered(EventById(id))
        /\ last.selected = None
        /\ last.result = "SubjectNoEvent"

\* The effects of event e can all be applied in the current State with the
\* subject bound by the command: its narrative exists, the item it removes
\* is held once the item it adds has been received, and a subject is bound
\* if it removes one.
EffectsApply(e, subject) ==
    /\ has_narrative(e)
    /\ e.remove_item # None => Contains(apply_add_item(State, e).inventory, e.remove_item)
    /\ e.remove_subject => subject # None

\* C2: an event that names prerequisites is gated by them.  A command that
\* selects it while one of them is not completed fails with
\* RequiredEventNotCompleted and changes nothing; once all of them are
\* completed the same trigger is no longer blocked, and (its effects being
\* applicable) succeeds and marks the event completed.
C2_PrerequisiteGate ==
    [][\A id \in EventIds :
          last'.selected = id =>
              IF \E p \in EventById(id).required_events \cap EventIds : ~completed[p]
              THEN last'.result = "RequiredEventNotCompleted" /\ State' = State
              ELSE /\ last'.result # "RequiredEventNotCompleted"
                   /\ EffectsApply(EventById(id), last'.subject) =>
                          (last'.result = "EventSuccess" /\ completed'[id])]_vars

\* C2 witness: an event with a prerequisite was selected after the
\* prerequisite had completed, succeeded, and is now completed.
C2_Witness ==
    \E id \in EventIds :
        /\ EventById(id).required_events # {}
        /\ \A p \in EventById(id).required_events : p \in EventIds /\ completed[p]
        /\ last.selected = id
        /\ last.result = "EventSuccess"
        /\ completed[id]

\* C3: event resolution is atomic: whenever a command that selected an event
\* returns an error, the State is the one before the command.
C3_Atomic ==
    [][(last'.selected # None /\ last'.result \in Errors) => State' = State]_vars

\* C4: the completed flag of an event is monotonic: no command resets it.
C4_CompletedMonotonic ==
    [][\A id \in EventIds : completed[id] => completed'[id]]_vars

\* C4 witness: an event completed earlier is still completed after a later
\* command completed another event.
C4_Witness ==
    \E id \in EventIds :
        /\ completed[id]
        /\ last.selected \notin {None, id}
        /\ last.result = "EventSuccess"
        /\ completed[last.selected]

\* C5: no item is at the same time in a room's stash and in the inventory.
C5_NoItemInStashAndInventory ==
    \A i \in AllItems : \A r \in RoomIds :
        ~(Contains(inventory, i) /\ Contains(stash[r], i))

\* The number of occurrences of x in the list s.
Count(s, x) == Cardinality({i \in DOMAIN s : s[i] = x})

\* C6: each subject is in at most one room, and at most once in that room.
C6_SubjectInAtMostOneRoom ==
    \A su \in AllSubjects :
        /\ \A r \in RoomIds : Count(subjects[r], su) <= 1
        /\ \A r1, r2 \in RoomIds :
              (Contains(subjects[r1], su) /\ Contains(subjects[r2], su)) => r1 = r2

\* The subject of action a is in the current room; the item of a is held.
SubjectPresent(a) == a.subject # None /\ Contains(subjects[current_room], a.subject)

ItemHeld(a) == a.item # None /\ Contains(inventory, a.item)

\* No uncompleted event of the current room has the shape of action a, with
\* the item counted only if held and the subject only if present.
NoOpenCandidate(a) ==
    \A i \in DOMAIN config.events :
        (/\ config.events[i].location = current_room
         /\ EventMatches(config.events[i], a.verb,
                         IF ItemHeld(a) THEN a.item ELSE None,
                         IF SubjectPresent(a) THEN a.subject ELSE None))
        => completed[config.events[i].id]

C8_ExactShape ==
    [][\A id \in EventIds :
          last'.selected = id =>
              /\ EventById(id).required_verb = last'.action.verb
              /\ EventById(id).required_item = last'.item
              /\ EventById(id).required_subject = last'.subject]_vars

\* C8 witness: a command bound a verb and a subject but no item in a room
\* with an uncompleted event requiring that verb, that subject and an item
\* besides, and selected nothing.
C8_Witness ==
    /\ last.result = "SubjectNoEvent"
    /\ last.item = None
    /\ last.selected = None
    /\ \E id \in EventIds :
          /\ ~completed[id]
          /\ EventById(id).location = last.room
          /\ EventById(id).required_verb = last.action.verb
          /\ EventById(id).required_subject = last.subject
          /\ EventById(id).required_item # None

\* C9: events are room-scoped: a command selects an event, and an event
\* becomes completed, only while the player is in the event's location.
C9_RoomScoped ==
    [][\A id \in EventIds :
          /\ last'.selected = id => current_room = EventById(id).location
          /\ (~completed[id] /\ completed'[id]) =>
                 (current_room = EventById(id).location /\ last'.selected = id)]_vars

\* C9 witness: the trigger of an uncompleted event was bound in a room
\* other than the event's location and selected nothing.
C9_Witness ==
    \E id \in EventIds :
        /\ ~completed[id]
        /\ last.room # EventById(id).location
        /\ last.action.verb = EventById(id).required_verb
        /\ last.subject = EventById(id).required_subject
        /\ last.item = EventById(id).required_item
        /\ last.subject # None
        /\ last.selected = None
        /\ last.result = "SubjectNoEvent"

\* C10: a selected event, its prerequisites completed, whose remove_item is
\* not in the inventory when the effect is applied fails with NoItem.
C10_RemoveItemFailsWithNoItem ==
    [][\A id \in EventIds :
          (/\ last'.selected = id
           /\ required_events_completed(EventById(id), completed)
           /\ EventById(id).remove_item # None
           /\ ~Contains(apply_add_item(State, EventById(id)).inventory,
                        EventById(id).remove_item))
          => last'.result = "NoItem"]_vars

\* C11: the RoomText of a successful event is the event's narrative text
\* alone when the event has remove_old_narrative set, and otherwise the
\* narrative text of the room the event fired in, a blank line, then the
\* event's narrative text.
C11_RoomText ==
    [][\A id \in EventIds :
          (last'.selected = id /\ last'.result = "EventSuccess") =>
              last'.room_text =
                  IF EventById(id).remove_old_narrative
                  THEN <<EventById(id).narrative>>
                  ELSE <<narrative'[current_room], EventById(id).narrative>>]_vars

\* C12: a room's narrative id changes only through a successful event fired
\* in that room that has remove_old_narrative set and a narrative_after, and
\* it then becomes exactly that narrative_after; every other command leaves
\* every room's narrative id unchanged.
C12_NarrativeFrame ==
    [][\A r \in RoomIds :
          narrative'[r] # narrative[r] =>
              /\ last'.result = "EventSuccess"
              /\ last'.selected \in EventIds
              /\ r = current_room
              /\ EventById(last'.selected).remove_old_narrative
              /\ EventById(last'.selected).narrative_after # None
              /\ narrative'[r] = EventById(last'.selected).narrative_after]_vars

\* C13: after every successful event action the selected event is completed,
\* and the current room is the event's destination when it has one and the
\* room the command was given in otherwise.
C13_CompletedAndMoved ==
    [][\A id \in EventIds :
          (last'.selected = id /\ last'.result = "EventSuccess") =>
              /\ completed'[id]
              /\ current_room' = IF EventById(id).destination # None
                                 THEN EventById(id).destination
                                 ELSE current_room]_vars

\* A successful event with a destination has moved the player out of the room
\* the command was given in.
C13_Witness ==
    /\ last.result = "EventSuccess"
    /\ last.selected \in EventIds
    /\ EventById(last.selected).destination # None
    /\ current_room = EventById(last.selected).destination
    /\ current_room # last.room
    /\ completed[last.selected]

\* The last command was the verb-and-item command of the given verb function.
LastVerbItem(function) ==
    /\ action_type(last.action) = "VerbItem"
    /\ verb_function[last.action.verb] = function

\* Everything of the State but the inventory and the stashes is unchanged.
ItemsFrame == UNCHANGED <<current_room, subjects, narrative, completed>>

\* C14: taking an item that lies in the current room's stash fails with
\* CantPick when its can_pick is false and otherwise succeeds with NewItem
\* naming the item, the item moving from that stash to the inventory; taking
\* an item that is not in the stash fails with NoItem; both failures leave
\* the state unchanged.
C14_Take ==
    [][LastVerbItem("Take")' =>
          LET item == last'.action.item
          IN  IF Contains(stash[current_room], item)
              THEN IF config.can_pick[item]
                   THEN /\ last'.result = "NewItem" /\ last'.text = item
                        /\ inventory' = Append(inventory, item)
                        /\ stash' = [stash EXCEPT ![current_room] =
                                         RemoveAt(@, Position(@, item))]
                        /\ ItemsFrame
                   ELSE /\ last'.result = "CantPick"
                        /\ UNCHANGED State
              ELSE /\ last'.result = "NoItem"
                   /\ UNCHANGED State]_vars

\* An item has just been taken: it is in the inventory and no longer where
\* it lay, and an item that cannot be picked lies in the same room.
C14_Witness ==
    /\ LastVerbItem("Take") /\ last.result = "NewItem"
    /\ Contains(inventory, last.action.item)
    /\ ~Contains(stash[current_room], last.action.item)
    /\ \E i \in AllItems : Contains(stash[current_room], i) /\ ~config.can_pick[i]

\* C15: dropping an item the player holds succeeds with DropItem, removes it
\* from the inventory and adds it to the current room's stash; dropping an
\* item the player does not hold fails with NoItem and leaves the state
\* unchanged.
C15_Drop ==
    [][LastVerbItem("Drop")' =>
          LET item == last'.action.item
          IN  IF Contains(inventory, item)
              THEN /\ last'.result = "DropItem"
                   /\ inventory' = RemoveAt(inventory, Position(inventory, item))
                   /\ stash' = [stash EXCEPT ![current_room] = Append(@, item)]
                   /\ ItemsFrame
              ELSE /\ last'.result = "NoItem"
                   /\ UNCHANGED State]_vars

\* An item has just been dropped in a room it did not start in.
C15_Witness ==
    /\ LastVerbItem("Drop") /\ last.result = "DropItem"
    /\ ~Contains(inventory, last.action.item)
    /\ Contains(stash[current_room], last.action.item)
    /\ ~Contains(BlueprintOf(config, current_room).item_ids, last.action.item)

\* What a take of the item followed by a drop of it, both given in state s,
\* leave behind: the results of the two commands and the final state.
TakeThenDrop(s, item) ==
    LET took == parse(s, Action(5, item, None, NoDirection))
        dropped == parse(took.state, Action(6, item, None, NoDirection))
    IN  [took |-> took.result, dropped |-> dropped.result, state |-> dropped.state]

\* The items of a Vec of items, as a set.
ItemSet(items) == {items[i] : i \in DOMAIN items}

\* C16: for every room and every pickable item in its stash, taking the item
\* and then dropping it in the same room leaves the room's stash with the
\* same set of items as before the take and the inventory as it was before
\* the take.
C16_TakeDropRoundTrip ==
    \A item \in AllItems :
        (~aborted /\ Contains(stash[current_room], item) /\ config.can_pick[item]) =>
            LET after == TakeThenDrop(State, item)
            IN  /\ after.took = "NewItem" /\ after.dropped = "DropItem"
                /\ ItemSet(after.state.stash[current_room]) = ItemSet(stash[current_room])
                /\ after.state.inventory = inventory

\* The exits of the room the player is in.
ExitsHere == BlueprintOf(config, current_room).exits

\* The positions of the exits of the current room that lead in a direction.
ExitsTowards(direction) == {i \in DOMAIN ExitsHere : ExitsHere[i].direction = direction}

\* The last command was a movement command.
LastMovement == action_type(last.action) = "Movement"

\* C17: a movement command leads to a room if and only if the current room's
\* exit list has an exit in that direction, the room being the destination of
\* the first such exit; otherwise it fails with InvalidMovement.  (Once the
\* player is in the room the command ends with EventSuccess, or with
\* InvalidNarrative when the room's narrative id is not in the catalog.)
C17_CanMove ==
    [][LastMovement' =>
          LET towards == ExitsTowards(last'.action.movement)
          IN  IF towards # {}
              THEN /\ last'.result \in {"EventSuccess", "InvalidNarrative"}
                   /\ \E i \in towards :
                          /\ \A j \in towards : i <= j
                          /\ current_room' = ExitsHere[i].room_id
              ELSE last'.result = "InvalidMovement"]_vars

\* A movement command has failed in a room that has no exit at all (in the
\* second catalog such a room is entered from a room with exits in several
\* directions, itself entered through the first of two exits leading south).
C17_Witness ==
    /\ LastMovement /\ last.result = "InvalidMovement"
    /\ ExitsHere = <<>>

\* C18: a movement command in a direction for which the current room has no
\* exit fails with InvalidMovement and leaves the whole State unchanged.
C18_NoExitNoChange ==
    [][(LastMovement' /\ ExitsTowards(last'.action.movement) = {}) =>
          /\ last'.result = "InvalidMovement"
          /\ UNCHANGED State]_vars

\* The third command failed to move the player out of the starting room,
\* which an event's destination had just brought them back to.
C18_Witness ==
    /\ LastMovement /\ last.result = "InvalidMovement"
    /\ steps = 3
    /\ current_room = StateInit(config).current_room
    /\ \E id \in EventIds :
           /\ completed[id]
           /\ EventById(id).destination = current_room
           /\ EventById(id).location # current_room

\* C19: processing a command never aborts; it ends with a result value or a
\* typed error, also when an event's remove_item names an item the player
\* does not hold.
C19_NeverAborts == last.result # "Panic"

\* The last command was a verb alone.
LastVerbOnly == action_type(last.action) = "Verb"

\* C20: a command that is a verb alone never changes the State; with a Take
\* or Drop verb it fails with NoItem, with a Normal verb it fails with
\* InvalidEvent, and with a Quit, Help, Look or Inventory verb it returns
\* the result of that name.
C20_VerbOnly ==
    [][LastVerbOnly' =>
          /\ UNCHANGED State
          /\ LET function == verb_function[last'.action.verb]
             IN  /\ function \in {"Take", "Drop"} => last'.result = "NoItem"
                 /\ function = "Normal" => last'.result = "InvalidEvent"
                 /\ function \in {"Quit", "Help", "Look", "Inventory"} =>
                        last'.result = function]_vars

\* A Normal verb given alone has failed with InvalidEvent in a room that has
\* an open event for that verb.
C20_Witness ==
    /\ LastVerbOnly /\ last.result = "InvalidEvent"
    /\ verb_function[last.action.verb] = "Normal"
    /\ \E i \in DOMAIN RoomEvents(config, current_room) :
           /\ RoomEvents(config, current_room)[i].required_verb = last.action.verb
           /\ ~completed[RoomEvents(config, current_room)[i].id]

\* The state and the result a handler's outcome stands for are those the
\* last command left.
LastIs(out) ==
    /\ last'.result = out.result
    /\ last'.event = out.event
    /\ State' = out.state

\* C21: a command of a verb and an item is dispatched by the verb's function:
\* Take runs pick_item, Drop runs drop_item, Look runs look_item, Normal is
\* forwarded to event resolution, and Quit, Help, Inventory and Talk fail with
\* InvalidVerb; a Take or Drop verb without an item fails with NoItem.
C21_VerbItemDispatch ==
    [][/\ action_type(last'.action) = "VerbItem" =>
             LET a == last'.action
                 function == verb_function[a.verb]
             IN  /\ function = "Take" => LastIs(pick_item(State, a.item))
                 /\ function = "Drop" => LastIs(drop_item(State, a.item))
                 /\ function = "Look" =>
                        /\ LastIs(look_item(State, a.item))
                        /\ last'.result = "Look" /\ UNCHANGED State
                 /\ function = "Normal" =>
                        /\ LastIs(handle_event(State, a))
                        /\ last'.event /\ last'.subject = None
                 /\ function \in {"Quit", "Help", "Inventory", "Talk"} =>
                        /\ last'.result = "InvalidVerb" /\ ~last'.event
                        /\ UNCHANGED State
       /\ (/\ action_type(last'.action) = "Verb"
           /\ verb_function[last'.action.verb] \in {"Take", "Drop"}) =>
              last'.result = "NoItem"]_vars

\* A Normal verb with an item was forwarded to event resolution, which
\* selected an event for that item.
C21_Witness ==
    /\ LastVerbItem("Normal") /\ last.event
    /\ last.selected \in EventIds
    /\ EventById(last.selected).required_item = last.action.item

\* C22: a command of a verb and a subject runs look_subject and changes
\* nothing when the verb is a Look verb and is forwarded to event resolution
\* for every other verb function; a Talk verb without a subject fails with
\* InvalidSubject.
C22_VerbSubjectDispatch ==
    [][/\ action_type(last'.action) = "VerbSubject" =>
             LET a == last'.action
             IN  IF verb_function[a.verb] = "Look"
                 THEN /\ last'.result = "Look" /\ ~last'.event
                      /\ UNCHANGED State
                 ELSE /\ last'.event
                      /\ LastIs(handle_event(State, a))
       /\ (/\ action_type(last'.action) = "Verb"
           /\ verb_function[last'.action.verb] = "Talk") =>
              last'.result = "InvalidSubject"]_vars

\* A Take verb with a subject was forwarded to event resolution.
C22_Witness ==
    /\ action_type(last.action) = "VerbSubject"
    /\ verb_function[last.action.verb] = "Take"
    /\ last.event /\ last.subject = last.action.subject
    /\ last.result = "SubjectNoEvent"


\* ---------------------------------------------------------------------
\* Properties of the parser
\* ---------------------------------------------------------------------

\* The last call built or was given an Action (it was not the empty input).
LastHasAction == last.result # "EmptyInput"

\* C23 as stated: an Action is accepted if and only if it has a verb and at
\* least one of item, subject and movement, or no verb and a movement.
C23_ValidAsStated ==
    [][LastHasAction' =>
          LET a == last'.action
          IN  (last'.result # "InvalidAction") <=>
                  \/ a.verb # None /\ (a.item # None \/ a.subject # None
                                        \/ a.movement # NoDirection)
                  \/ a.verb = None /\ a.movement # NoDirection]_vars

\* C23, amended: an Action is accepted if and only if it has a verb or a
\* movement; a verb alone is a valid Action.
C23_Valid ==
    [][LastHasAction' =>
          LET a == last'.action
          IN  /\ is_valid(a) <=> (a.verb # None \/ a.movement # NoDirection)
              /\ (last'.result # "InvalidAction") <=> is_valid(a)]_vars

\* An Action that is a verb alone was accepted and answered.
C23_Witness ==
    /\ last.action.verb # None /\ last.action.item = None
    /\ last.action.subject = None /\ last.action.movement = NoDirection
    /\ last.result = "Look"

\* The ActionTypes in their order of precedence, and whether each applies to
\* an Action.
TypeOrder ==
    <<"VerbItemSubject", "VerbSubject", "VerbItem", "Verb", "Movement", "Invalid">>

Applies(type, a) ==
    CASE type = "VerbItemSubject" -> a.verb # None /\ a.item # None /\ a.subject # None
      [] type = "VerbSubject" -> a.verb # None /\ a.subject # None
      [] type = "VerbItem" -> a.verb # None /\ a.item # None
      [] type = "Verb" -> a.verb # None
      [] type = "Movement" -> a.movement # NoDirection
      [] type = "Invalid" -> TRUE

\* C24: the ActionType of an Action is the first in the order
\* VerbItemSubject, VerbSubject, VerbItem, Verb, Movement, Invalid that
\* applies; an Action with a verb and a movement and nothing else is a Verb
\* action and is answered by the verb handler: the player does not move.
C24_TypePriority ==
    [][LastHasAction' =>
          LET a == last'.action
          IN  /\ \E k \in DOMAIN TypeOrder :
                     /\ action_type(a) = TypeOrder[k]
                     /\ Applies(TypeOrder[k], a)
                     /\ \A j \in 1..(k - 1) : ~Applies(TypeOrder[j], a)
              /\ (/\ a.verb # None /\ a.movement # NoDirection
                  /\ a.item = None /\ a.subject = None) =>
                     /\ action_type(a) = "Verb"
                     /\ LastIs(handle_verb(State, a))
                     /\ current_room' = current_room]_vars

\* A Look verb together with a direction the current room has an exit for
\* was answered as a Look, and the player is where they were.
C24_Witness ==
    /\ last.action.verb # None /\ last.action.movement # NoDirection
    /\ last.action.item = None /\ last.action.subject = None
    /\ last.result = "Look"
    /\ current_room = last.room
    /\ ExitsTowards(last.action.movement) # {}

\* The last call was given an input string.
LastTyped == "input" \in DOMAIN last

\* The last call was given an input string of which the filter left tokens.
LastTokenised == LastTyped /\ last.input # <<>> /\ last.command_tokens # <<"">>

\* The cardinal direction words and their one-letter abbreviations.
CardinalWords == {"north", "n", "south", "s", "east", "e", "west", "w"}

\* C25: a movement is recognised if and only if there is exactly one token
\* and it is a cardinal direction word or its abbreviation, or there are
\* exactly two tokens, the first a movement verb and the second a word of
\* the allowed directions; every such two-token input yields a direction.
C25_Movement ==
    [][LastTokenised' =>
          LET tokens == last'.command_tokens
              movement == last'.action.movement
              single == Len(tokens) = 1 /\ tokens[1] \in CardinalWords
              double == /\ Len(tokens) = 2
                        /\ tokens[1] \in allowed_movements
                        /\ tokens[2] \in allowed_directions
          IN  /\ (movement # NoDirection) <=> (single \/ double)
              /\ movement # NoDirection => movement \in Directions]_vars

\* The word, written in lower case, is a preposition or a determiner.
IsFiller(word) ==
    to_lowercase(word) \in allowed_prepositions \cup allowed_determiners

\* C26: a non-empty input all of whose words are prepositions or determiners
\* (compared in lower case) parses to the Action with the single token "" and
\* no verb, item, subject or movement, which is Invalid; the command returns
\* an error and leaves the State unchanged.  The empty input returns
\* EmptyInput and leaves the State unchanged.
C26_NothingLeft ==
    [][LastTyped' =>
          /\ last'.input = <<>> =>
                 last'.result = "EmptyInput" /\ UNCHANGED State
          /\ (/\ last'.input # <<>>
              /\ \A i \in DOMAIN last'.input : IsFiller(last'.input[i])) =>
                 /\ last'.command_tokens = <<"">>
                 /\ last'.action = Action(None, None, None, NoDirection)
                 /\ action_type(last'.action) = "Invalid"
                 /\ last'.result = "InvalidAction"
                 /\ UNCHANGED State]_vars

\* An input of a capitalised determiner and a preposition was rejected.
C26_Witness ==
    /\ LastTyped /\ Len(last.input) > 1
    /\ \A i \in DOMAIN last.input : IsFiller(last.input[i])
    /\ \E i \in DOMAIN last.input : to_lowercase(last.input[i]) # last.input[i]
    /\ last.command_tokens = <<"">>
    /\ last.result = "InvalidAction"

\* C27: the Action parsed from an input depends on the input and the catalog
\* alone: the parse made in the State the command was given in equals the
\* parse of the same input in the State the command left and in the State
\* State::init builds, whatever rooms, inventory, stashes, subjects and
\* completion flags these States have.
C27_ParseIgnoresState ==
    [][(LastTyped' /\ last'.input # <<>>) =>
          LET parsed == [action |-> last'.action,
                         command_tokens |-> last'.command_tokens]
          IN  /\ parsed = Action_parse(State, last'.input)
              /\ parsed = Action_parse(State', last'.input)
              /\ parsed = Action_parse(StateInit(config), last'.input)]_vars

\* An input naming a subject was parsed, with that subject, in a room other
\* than the starting room where the subject is not present.
C27_Witness ==
    /\ LastTyped /\ last.action.subject # None
    /\ last.room # StateInit(config).current_room
    /\ ~Contains(subjects[last.room], last.action.subject)
    /\ Contains(StateInit(config).subjects[StateInit(config).current_room],
                last.action.subject)

\* ---------------------------------------------------------------------
\* Properties of the rendering
\* ---------------------------------------------------------------------

LastRendered == last.kind = "Render" /\ last.message.result = "Ok"

\* Every brace of the text belongs to a placeholder: "{", one word, "}".
IsWord(symbol) == symbol \notin {"{", "}", "\n"}

WellFormed(text) ==
    \A i \in DOMAIN text :
        /\ text[i] = "{" => /\ i + 2 <= Len(text)
                            /\ IsWord(text[i + 1])
                            /\ text[i + 2] = "}"
        /\ text[i] = "}" => /\ i > 2
                            /\ IsWord(text[i - 1])
                            /\ text[i - 2] = "{"

Placeholders(text) == {text[i + 1] : i \in {j \in DOMAIN text : text[j] = "{"}}

Unbraced(text) == SelectSeq(text, LAMBDA symbol : symbol \notin {"{", "}"})

DropFinalBreak(text) ==
    IF text # <<>> /\ text[Len(text)] = "\n"
    THEN SubSeq(text, 1, Len(text) - 1)
    ELSE text

HeldOrHere ==
    {item_name[inventory[k]] : k \in DOMAIN inventory}
    \cup {item_name[stash[current_room][k]] : k \in DOMAIN stash[current_room]}
    \cup {subject_name[subjects[current_room][k]] : k \in DOMAIN subjects[current_room]}

HighlightCorpus(event_id) ==
    HeldOrHere
    \cup {item_name[i] : i \in config.items \cap
             {e.add_item : e \in {EventById(id) : id \in EventIds \cap {event_id}}}}
    \cup {item_name[i] : i \in config.items \cap
             {e.remove_item : e \in {EventById(id) : id \in EventIds \cap {event_id}}}}

\* C28: a narrative whose braces all belong to {x} placeholders is rendered
\* with every placeholder replaced by its bare word x, in the corpus or not,
\* one or several on a line, and nothing else changed but a final line
\* break; templated_words holds exactly the placeholders' words that name an
\* item of the inventory, an item of the current room's stash, the event's
\* add_item or remove_item, or a subject of the current room.
C28_Templating ==
    (LastRendered /\ WellFormed(last.narrative_text)) =>
        /\ last.message.RoomText = DropFinalBreak(Unbraced(last.narrative_text))
        /\ last.message.templated_words =
               Placeholders(last.narrative_text) \cap HighlightCorpus(last.event_id)

\* A rendered line with three placeholders, one naming nothing and one
\* naming an item that only the event brings into the corpus.
C28_Witness ==
    /\ LastRendered
    /\ last.narrative_text =
           <<"{", "ghost", "}", "{", "item2", "}", "{", "subject1", "}">>
    /\ "item2" \notin HeldOrHere
    /\ "item2" \in last.message.templated_words
    /\ "ghost" \notin last.message.templated_words

LastError == last.kind = "Error"

\* C29: the text of the error a command returned equals the text of a new
\* error of the same type rendered afterwards; in particular for
\* InvalidEvent.
C29_ErrorTextDeterministic ==
    LastError => last.returned = last.fresh

\* ---------------------------------------------------------------------
\* Properties of event selection
\* ---------------------------------------------------------------------

\* Two events of the same shape: the same room and the same trigger.
SameShape(e, f) ==
    /\ e.location = f.location
    /\ e.required_verb = f.required_verb
    /\ e.required_item = f.required_item
    /\ e.required_subject = f.required_subject

\* The event at position i of the configured order is the first of its
\* shape that is not completed.
FirstOpenOfShape(i) ==
    /\ ~completed[config.events[i].id]
    /\ \A j \in 1..(i - 1) :
           SameShape(config.events[j], config.events[i]) =>
               completed[config.events[j].id]

Blocked(e) == \E p \in e.required_events \cap EventIds : ~completed[p]

\* C30: the first uncompleted candidate in configured order is selected
\* before its prerequisites are looked at: a command with the trigger of
\* such an event, while one of its required events is not completed, fails
\* with RequiredEventNotCompleted on that event and changes nothing,
\* whether or not a later uncompleted event of the same shape has all its
\* required events completed.
C30_FirstCandidateBlocks ==
    [][\A i \in DOMAIN config.events :
          (/\ LastTriggered(config.events[i])'
           /\ FirstOpenOfShape(i)
           /\ Blocked(config.events[i])) =>
              /\ last'.result = "RequiredEventNotCompleted"
              /\ last'.selected = config.events[i].id
              /\ State' = State]_vars

\* C30 witness: a command failed with RequiredEventNotCompleted on the
\* first open event of its shape while a later event of the same shape is
\* not completed and has every required event completed.
C30_Witness ==
    \E i \in DOMAIN config.events :
        /\ LastTriggered(config.events[i])
        /\ last.result = "RequiredEventNotCompleted"
        /\ last.selected = config.events[i].id
        /\ FirstOpenOfShape(i)
        /\ \E j \in DOMAIN config.events :
               /\ j > i
               /\ SameShape(config.events[j], config.events[i])
               /\ ~completed[config.events[j].id]
               /\ ~Blocked(config.events[j])

\* C31: a command whose event resolution fails with
\* RequiredEventNotCompleted changes nothing: no completed flag changes, the
\* selected event stays uncompleted, and the inventory, every room's
\* subjects and narrative and the current room are as before.
C31_BlockedChangesNothing ==
    [][last'.result = "RequiredEventNotCompleted" =>
          /\ completed' = completed
          /\ last'.selected \in EventIds /\ ~completed'[last'.selected]
          /\ inventory' = inventory
          /\ subjects' = subjects
          /\ narrative' = narrative
          /\ current_room' = current_room]_vars

\* C31 witness: a command was blocked on an event that has effects to
\* apply, in a State where the player holds an item and another event is
\* completed.
C31_Witness ==
    /\ last.result = "RequiredEventNotCompleted"
    /\ ~completed[last.selected]
    /\ EventById(last.selected).remove_item # None
    /\ inventory # <<>>
    /\ \E id \in EventIds : completed[id]

\* ---------------------------------------------------------------------
\* Properties of binding
\* ---------------------------------------------------------------------

\* The item and the subject the next command names, as the State before the
\* command has them.
NamesUnheldItem == last'.action.item # None /\ ~Contains(inventory, last'.action.item)

NamesPresentSubject ==
    /\ last'.action.subject # None
    /\ Contains(subjects[current_room], last'.action.subject)

NamesAbsentSubject ==
    /\ last'.action.subject # None
    /\ ~Contains(subjects[current_room], last'.action.subject)

\* C32: event resolution binds the action's item only if the player holds
\* it and the action's subject only if it is in the current room; an action
\* naming an item not held and a present subject is resolved on the verb
\* and the subject alone, so the event it selects has no required_item; and
\* no command naming a subject absent from the current room returns
\* SubjectNoEvent.
C32_BindsReachable ==
    [][/\ last'.event =>
              /\ last'.item # None =>
                     (last'.item = last'.action.item /\ Contains(inventory, last'.item))
              /\ last'.subject # None =>
                     /\ last'.subject = last'.action.subject
                     /\ Contains(subjects[current_room], last'.subject)
              /\ (NamesUnheldItem /\ NamesPresentSubject) =>
                     /\ last'.item = None
                     /\ last'.subject = last'.action.subject
                     /\ last'.selected # None =>
                            /\ EventById(last'.selected).required_item = None
                            /\ EventById(last'.selected).required_subject = last'.subject
                            /\ EventById(last'.selected).required_verb = last'.action.verb
       /\ NamesAbsentSubject => last'.result # "SubjectNoEvent"]_vars

\* C32 witness: a command naming an item the player does not hold and a
\* present subject selected an event of the verb and the subject.
C32_Witness ==
    /\ last.event
    /\ last.action.item # None /\ ~Contains(inventory, last.action.item)
    /\ last.item = None
    /\ last.subject # None /\ last.subject = last.action.subject
    /\ last.selected # None
    /\ last.result = "EventSuccess"

\* ---------------------------------------------------------------------
\* Properties of the effects
\* ---------------------------------------------------------------------

\* Event e adds and removes one and the same item.
SwapsItem(e) == e.add_item # None /\ e.add_item \in config.items /\ e.remove_item = e.add_item

\* Event e removes the bound subject and adds the same subject.
SwapsSubject(e, subject) == e.remove_subject /\ subject # None /\ e.add_subject = subject

\* C33: the effects are applied in the order add_item, remove_item,
\* remove_subject, add_subject.  A selected event that adds and removes the
\* same item, with its required events completed, its narrative in the
\* catalog and a subject bound if it removes one, succeeds although the
\* player does not hold the item, and the inventory is without the item
\* afterwards; a successful event that removes the bound subject and adds
\* the same subject leaves the subject in the room where it fired.
C33_EffectOrder ==
    [][\A id \in EventIds :
          last'.selected = id =>
              /\ (/\ SwapsItem(EventById(id))
                  /\ ~Contains(inventory, EventById(id).add_item)
                  /\ ~Blocked(EventById(id))
                  /\ has_narrative(EventById(id))
                  /\ EventById(id).remove_subject => last'.subject # None) =>
                     /\ last'.result = "EventSuccess"
                     /\ ~Contains(inventory', EventById(id).add_item)
              /\ (/\ SwapsSubject(EventById(id), last'.subject)
                  /\ last'.result = "EventSuccess") =>
                     Contains(subjects'[current_room], last'.subject)]_vars

\* C33 witness: an event that adds and removes the same item and removes
\* and adds the bound subject succeeded; the player does not hold the item
\* and the subject is in the room where the event fired.
C33_Witness ==
    \E id \in EventIds :
        /\ last.selected = id
        /\ last.result = "EventSuccess"
        /\ SwapsItem(EventById(id))
        /\ SwapsSubject(EventById(id), last.subject)
        /\ ~Contains(inventory, EventById(id).add_item)
        /\ Contains(subjects[last.room], last.subject)

\* ---------------------------------------------------------------------
\* Properties of the event message
\* ---------------------------------------------------------------------

\* The names of the items and the subjects that room has after the command,
\* with the items the player holds after it.
NamesIn(room) ==
    {item_name[inventory'[k]] : k \in DOMAIN inventory'}
    \cup {item_name[stash'[room][k]] : k \in DOMAIN stash'[room]}
    \cup {subject_name[subjects'[room][k]] : k \in DOMAIN subjects'[room]}

\* The names of the items event e adds and removes.
EventItemNames(e) ==
    {item_name[i] : i \in config.items \cap {e.add_item, e.remove_item}}

RemovesBound(id) ==
    /\ last'.selected = id
    /\ last'.result = "EventSuccess"
    /\ EventById(id).remove_subject
    /\ last'.subject # None

\* Event resolution binds the subject the command names exactly when the
\* subject is in the room where the command is given.
BindsWherePresent ==
    (last'.event /\ last'.action.subject # None) =>
        IF Contains(subjects[current_room], last'.action.subject)
        THEN last'.subject = last'.action.subject
        ELSE last'.subject = None

PutsBack(e, subject, room) ==
    e.add_subject = subject \/ e.move_subject_to_location = room

EffectsShow ==
    \/ inventory' # inventory
    \/ subjects' # subjects
    \/ narrative' # narrative
    \/ current_room' # current_room

\* C36: the effects of an event are applied at most once: a command that
\* selects an event and applies any of its effects selects an event not yet
\* completed and marks it completed in the same command, also when the
\* event has no narrative.
C36_EffectsOnce ==
    [][\A id \in EventIds :
          (last'.selected = id /\ EffectsShow) =>
              (~completed[id] /\ completed'[id])]_vars

\* C37: the inventory never holds the same item twice.
C37_NoDuplicateItems ==
    \A i, j \in DOMAIN inventory : i # j => inventory[i] # inventory[j]

\* C38: the two records of completion agree: for every event,
\* State::is_event_completed is true exactly when event resolution has
\* marked the event completed.
C38_CompletionRecordsAgree ==
    \A id \in EventIds : is_event_completed(State, id) <=> completed[id]

\* ---------------------------------------------------------------------
\* Properties of the current room
\* ---------------------------------------------------------------------

\* Every exit and every event destination of the catalog leads to a room of
\* the catalog, and so does the room State::init starts in.
RoomsLinked ==
    /\ StateInit(config).current_room \in RoomIds
    /\ \A r \in RoomIds : \A i \in DOMAIN BlueprintOf(config, r).exits :
           BlueprintOf(config, r).exits[i].room_id \in RoomIds
    /\ \A id \in EventIds :
           EventById(id).destination # None => EventById(id).destination \in RoomIds

\* In a catalog whose exits, event destinations and starting room exist, the
\* current room is always a room of the catalog and no command fails with
\* InvalidRoom or NoRoom.
CurrentRoomExists ==
    RoomsLinked => (current_room \in RoomIds /\ last.result \notin {"InvalidRoom", "NoRoom"})

\* C39: in such a catalog the current room always exists, no command fails
\* with InvalidRoom or NoRoom, and a movement command that returns an error
\* leaves the current room as it was.
C39_FailedMoveStays ==
    [][RoomsLinked =>
          /\ CurrentRoomExists'
          /\ (LastMovement' /\ last'.result \in Errors) =>
                 current_room' = current_room]_vars

\* C40: a successful movement command changes only the current room: the
\* inventory, every room's stash, subjects and narrative id and every
\* event's completed flag are as before, and no event is selected.
C40_MovementFrame ==
    [][(LastMovement' /\ last'.result = "EventSuccess") =>
          /\ UNCHANGED <<inventory, stash, subjects, narrative, completed>>
          /\ last'.selected = None
          /\ ~last'.event]_vars

\* C40 witness: the player, holding an item, entered another room that has
\* an event not completed, after an event had been completed.
C40_Witness ==
    /\ LastMovement /\ last.result = "EventSuccess"
    /\ current_room # last.room
    /\ inventory # <<>>
    /\ \E id \in EventIds : completed[id]
    /\ \E id \in EventIds : EventById(id).location = current_room /\ ~completed[id]

============================================================================
